---- MODULE Spec2Model ----
(***************************************************************************)
(* SmartFactorExtractor (src/backend/utils/smart_factor_extractor.py).     *)
(*                                                                         *)
(* Text is a sequence of Unicode code points, so that substring counting,  *)
(* case folding and the regular expressions act on characters as they do   *)
(* in the source.  Floating-point numbers are modelled as exact rationals  *)
(* [num, den] in lowest terms; NaN is a separate value.                    *)
(***************************************************************************)
EXTENDS Integers, Sequences, FiniteSets, TLC

VARIABLES
  tavily_data,   \* the payload given to extract_factors_from_tavily_data
  pc,            \* position inside extract_factors_from_tavily_data
  report_text,   \* local: tavily_data.get('report', '')
  factors,       \* local: the list the scanners' outputs are appended to
  invoked,       \* the scanners called so far, in call order
  result,        \* what the caller observes: a returned list or a raised error
  call,          \* a pending call of one of the other functions, with its arguments
  ret            \* what that call returned

vars == <<tavily_data, pc, report_text, factors, invoked, result, call, ret>>

extractVars == <<tavily_data, pc, report_text, factors, invoked, result>>

-----------------------------------------------------------------------------
(* Bounds of the model *)

\* words of ExtractVocab in a report text (SpecExtract)
MaxWords == 2
\* words of NumericVocab in a text (SpecNumeric)
MaxNumWords == 3
\* characters of a text (SpecImportance)
MaxTextLen == 6
\* factors in the list given to extract_features_from_factors (SpecFeatures)
MaxFactors == 5

-----------------------------------------------------------------------------
(* Exact rationals standing for Python floats *)

RECURSIVE GCD(_, _)
GCD(a, b) == IF b = 0 THEN a ELSE GCD(b, a % b)

Abs(n) == IF n < 0 THEN -n ELSE n

\* n / d in lowest terms, d > 0
RatBy(n, d, g) == [num |-> n \div g, den |-> d \div g]

Rat(n, d) == RatBy(n, d, GCD(Abs(n), d))

RInt(n) == [num |-> n, den |-> 1]

RLe(a, b) == a.num * b.den <= b.num * a.den
RLt(a, b) == a.num * b.den < b.num * a.den
RMin(a, b) == IF RLe(a, b) THEN a ELSE b
RMax(a, b) == IF RLe(a, b) THEN b ELSE a
RAdd(a, b) == Rat(a.num * b.den + b.num * a.den, a.den * b.den)
RSub(a, b) == Rat(a.num * b.den - b.num * a.den, a.den * b.den)
RMul(a, b) == Rat(a.num * b.num, a.den * b.den)
\* a / b for b > 0
RDivPos(a, b) == Rat(a.num * b.den, a.den * b.num)
RAbs(a) == [num |-> Abs(a.num), den |-> a.den]

-----------------------------------------------------------------------------
(* Characters and strings *)

NEWLINE == 10
DOT == 46
PERCENT == 37

IsDigit(c) == c \in 48..57
\* \s of the re module, on the characters of the model's texts
IsSpace(c) == c \in {9, 10, 11, 12, 13, 32}

\* str.lower() on one character: ASCII capitals fold, CJK characters have no case
LowerChar(c) == IF c \in 65..90 THEN c + 32 ELSE c

Lower(s) == [i \in 1..Len(s) |-> LowerChar(s[i])]

\* s[i-1:i-1+len(k)] == k, on 1-based positions
OccursAt(s, i, k) ==
  /\ i + Len(k) - 1 <= Len(s)
  /\ \A j \in 1..Len(k) : s[i + j - 1] = k[j]

\* the same under re.IGNORECASE
OccursAtNoCase(s, i, k) ==
  /\ i + Len(k) - 1 <= Len(s)
  /\ \A j \in 1..Len(k) : LowerChar(s[i + j - 1]) = LowerChar(k[j])

\* str.count(k): occurrences counted left to right, each scan resuming after
\* the end of the occurrence just found
RECURSIVE CountFrom(_, _, _)
CountFrom(s, k, i) ==
  IF i + Len(k) - 1 > Len(s) THEN 0
  ELSE IF OccursAt(s, i, k) THEN 1 + CountFrom(s, k, i + Len(k))
  ELSE CountFrom(s, k, i + 1)

StrCount(s, k) == IF Len(k) = 0 THEN Len(s) + 1 ELSE CountFrom(s, k, 1)

RECURSIVE Concat(_)
Concat(ws) == IF ws = <<>> THEN <<>> ELSE Head(ws) \o Concat(Tail(ws))

\* sequences of at most n elements of S
RECURSIVE SeqsUpTo(_, _)
SeqsUpTo(S, n) ==
  IF n = 0 THEN {<<>>}
  ELSE LET shorter == SeqsUpTo(S, n - 1)
       IN  shorter \cup {Append(s, x) : s \in shorter, x \in S}

Min2(a, b) == IF a <= b THEN a ELSE b

-----------------------------------------------------------------------------
(* _calculate_text_importance *)

\* ImportanceOf without the cap of 10 per indicator
ImportanceOf_NoCap(count) == IF count > 0 THEN count * 2 ELSE 0

\* lines 444-447: what one indicator adds to total_score
ImportanceOf(count) == IF count > 0 THEN Min2(count * 2, 10) ELSE 0

\* the for loop of lines 440-447, from indicator i on, total_score so far
RECURSIVE ImportanceLoop(_, _, _, _)
ImportanceLoop(text_lower, indicators, i, total_score) ==
  IF i > Len(indicators) THEN total_score
  ELSE ImportanceLoop(text_lower, indicators, i + 1,
         total_score + ImportanceOf(StrCount(text_lower, Lower(indicators[i]))))

_calculate_text_importance(text, indicators) ==
  IF Len(text) = 0 \/ Len(indicators) = 0 THEN RInt(0)
  ELSE RMin(Rat(ImportanceLoop(Lower(text), indicators, 1, 0), Len(indicators)),
            RInt(10))

-----------------------------------------------------------------------------
(* The regular expressions of the numeric metrics.                         *)
(*                                                                         *)
(* Every pattern of the source has one of two shapes, with NUM the         *)
(* capture group (\d+(?:\.\d+)?):                                          *)
(*    kw_num:   KW .*? NUM TAIL                                            *)
(*    num_kw:   NUM TAIL .*? KW                                            *)
(* TAIL is an optional \s* followed by groups (?:a|b|c), each optional or  *)
(* not ("%" is a group of one mandatory alternative).  A pattern is the    *)
(* record [shape, kw, ws, groups].  Matching follows the backtracking      *)
(* order of the re module: greedy quantifiers try the longest first, lazy  *)
(* ones the shortest first, alternatives left to right, and the first      *)
(* complete match at the leftmost start wins.                              *)

RECURSIVE DigitRun(_, _)
DigitRun(s, i) ==
  IF i <= Len(s) /\ IsDigit(s[i]) THEN 1 + DigitRun(s, i + 1) ELSE 0

RECURSIVE SpaceRun(_, _)
SpaceRun(s, i) ==
  IF i <= Len(s) /\ IsSpace(s[i]) THEN 1 + SpaceRun(s, i + 1) ELSE 0

\* (?:\.\d+)? from position p, where f digits follow a dot at p (f = 0: no
\* fraction there): the ends it can reach, longest fraction first
FracEndsOf(p, f) == [k \in 1..f |-> p + 1 + (f - k + 1)] \o <<p>>

FracEnds(s, p) ==
  FracEndsOf(p, IF p <= Len(s) /\ s[p] = DOT THEN DigitRun(s, p + 1) ELSE 0)

\* \d+(?:\.\d+)? from position i, where m digits start: the positions just
\* past the number, in backtracking order (longest digit run first)
NumEndsOf(s, i, m) == Concat([k \in 1..m |-> FracEnds(s, i + (m - k + 1))])

NumEnds(s, i) == NumEndsOf(s, i, DigitRun(s, i))

\* \s* from position e over a run of r spaces, longest first
WsEndsOf(e, r) == [k \in 1..(r + 1) |-> e + r - k + 1]

WsEnds(s, e, ws) == IF ws THEN WsEndsOf(e, SpaceRun(s, e)) ELSE <<e>>

\* one group (?:a|b|c) or (?:a|b|c)? from position p
GroupEnds(s, p, g) ==
  Concat([a \in 1..Len(g.alts) |->
            IF OccursAtNoCase(s, p, g.alts[a]) THEN <<p + Len(g.alts[a])>> ELSE <<>>])
  \o (IF g.optional THEN <<p>> ELSE <<>>)

RECURSIVE GroupsEnds(_, _, _, _)
GroupsEnds(s, ps, groups, gi) ==
  IF gi > Len(groups) THEN ps
  ELSE GroupsEnds(s, Concat([k \in 1..Len(ps) |-> GroupEnds(s, ps[k], groups[gi])]),
                  groups, gi + 1)

\* TAIL from position e: the positions just past it, in backtracking order
TailEnds(s, e, pat) == GroupsEnds(s, WsEnds(s, e, pat.ws), pat.groups, 1)

NoMatch == [ok |-> FALSE, cap |-> <<>>, end |-> 0]
Match(cap, end) == [ok |-> TRUE, cap |-> cap, end |-> end]

\* NUM TAIL at position j, as the end of a kw_num pattern: the first of the
\* number ends es[k], es[k+1], ... after which TAIL matches
RECURSIVE NumTailFrom(_, _, _, _, _), NumTailTry(_, _, _, _, _, _)
NumTailFrom(s, j, pat, es, k) ==
  IF k > Len(es) THEN NoMatch
  ELSE NumTailTry(s, j, pat, es, k, TailEnds(s, es[k], pat))

NumTailTry(s, j, pat, es, k, ts) ==
  IF ts # <<>> THEN Match(SubSeq(s, j, es[k] - 1), ts[1])
  ELSE NumTailFrom(s, j, pat, es, k + 1)

NumTailAt(s, j, pat) == NumTailFrom(s, j, pat, NumEnds(s, j), 1)

\* .*? NUM TAIL from position j: the lazy .*? grows one character at a time
\* and never over a newline
RECURSIVE LazyNum(_, _, _), LazyNumStep(_, _, _, _)
LazyNum(s, j, pat) == LazyNumStep(s, j, pat, NumTailAt(s, j, pat))

LazyNumStep(s, j, pat, m) ==
  IF m.ok THEN m
  ELSE IF j <= Len(s) /\ s[j] # NEWLINE THEN LazyNum(s, j + 1, pat)
  ELSE NoMatch

\* .*? KW from position q: the position just past KW, 0 when there is none
RECURSIVE LazyKw(_, _, _)
LazyKw(s, q, kw) ==
  IF OccursAtNoCase(s, q, kw) THEN q + Len(kw)
  ELSE IF q <= Len(s) /\ s[q] # NEWLINE THEN LazyKw(s, q + 1, kw)
  ELSE 0

\* the (number end, tail end) pairs of NUM TAIL at position i, in backtracking order
PairsOf(e, ts) == [t \in 1..Len(ts) |-> <<e, ts[t]>>]

NumTailPairsOf(s, pat, es) ==
  Concat([k \in 1..Len(es) |-> PairsOf(es[k], TailEnds(s, es[k], pat))])

NumTailPairs(s, i, pat) == NumTailPairsOf(s, pat, NumEnds(s, i))

\* NUM TAIL .*? KW at position i: the first of the pairs ps[k], ps[k+1], ...
\* after which .*? KW matches
RECURSIVE NumKwFrom(_, _, _, _, _), NumKwTry(_, _, _, _, _, _)
NumKwFrom(s, i, pat, ps, k) ==
  IF k > Len(ps) THEN NoMatch
  ELSE NumKwTry(s, i, pat, ps, k, LazyKw(s, ps[k][2], pat.kw))

NumKwTry(s, i, pat, ps, k, q) ==
  IF q # 0 THEN Match(SubSeq(s, i, ps[k][1] - 1), q)
  ELSE NumKwFrom(s, i, pat, ps, k + 1)

\* re.match of the pattern at position i
MatchAt(s, i, pat) ==
  IF pat.shape = "kw_num"
  THEN IF OccursAtNoCase(s, i, pat.kw) THEN LazyNum(s, i + Len(pat.kw), pat)
       ELSE NoMatch
  ELSE NumKwFrom(s, i, pat, NumTailPairs(s, i, pat), 1)

\* re.findall(pattern, text, re.IGNORECASE): the capture group of every
\* match, scanning left to right and resuming after each match
RECURSIVE FindAllFrom(_, _, _), FindAllStep(_, _, _, _)
FindAllFrom(s, pat, i) ==
  IF i > Len(s) THEN <<>> ELSE FindAllStep(s, pat, i, MatchAt(s, i, pat))

FindAllStep(s, pat, i, m) ==
  IF m.ok THEN <<m.cap>> \o FindAllFrom(s, pat, IF m.end > i THEN m.end ELSE i + 1)
  ELSE FindAllFrom(s, pat, i + 1)

FindAll(s, pat) == FindAllFrom(s, pat, 1)

-----------------------------------------------------------------------------
(* float() on a captured string *)

RECURSIVE DigitsValue(_)
DigitsValue(ds) ==
  IF ds = <<>> THEN 0
  ELSE DigitsValue(SubSeq(ds, 1, Len(ds) - 1)) * 10 + (ds[Len(ds)] - 48)

RECURSIVE Pow10(_)
Pow10(n) == IF n = 0 THEN 1 ELSE 10 * Pow10(n - 1)

\* float(x) raises ValueError unless x is a decimal literal
FloatParses(x) ==
  /\ \A i \in 1..Len(x) : IsDigit(x[i]) \/ x[i] = DOT
  /\ Cardinality({i \in 1..Len(x) : x[i] = DOT}) <= 1
  /\ \E i \in 1..Len(x) : IsDigit(x[i])

\* the position of the decimal point, Len(x) + 1 when there is none
DotPos(x) ==
  IF \E i \in 1..Len(x) : x[i] = DOT
  THEN CHOOSE i \in 1..Len(x) : x[i] = DOT
  ELSE Len(x) + 1

FloatOf(whole, frac) ==
  Rat(DigitsValue(whole) * Pow10(Len(frac)) + DigitsValue(frac), Pow10(Len(frac)))

FloatAt(x, d) == FloatOf(SubSeq(x, 1, d - 1), SubSeq(x, d + 1, Len(x)))

Float(x) == FloatAt(x, DotPos(x))

-----------------------------------------------------------------------------
(* _extract_numeric_value *)

\* the for loop of lines 418-427 from pattern i on; 0.0 when it runs out
RECURSIVE NumericLoop(_, _, _), NumericStep(_, _, _, _)
NumericLoop(text, patterns, i) ==
  IF i > Len(patterns) THEN RInt(0)
  ELSE NumericStep(text, patterns, i, FindAll(text, patterns[i]))

\* NumericStep moving on to the next pattern when the match parses to 0
NumericStep_SkipZero(text, patterns, i, matches) ==
  IF matches # <<>> /\ FloatParses(matches[1]) /\ Float(matches[1]) # RInt(0)
  THEN Float(matches[1])
  ELSE NumericLoop(text, patterns, i + 1)

\* lines 420-427: the first match is parsed and returned; a ValueError moves
\* on to the next pattern, as no match does
NumericStep(text, patterns, i, matches) ==
  IF matches # <<>>
  THEN IF FloatParses(matches[1]) THEN Float(matches[1])
       ELSE NumericLoop(text, patterns, i + 1)
  ELSE NumericLoop(text, patterns, i + 1)

_extract_numeric_value(text, patterns) == NumericLoop(text, patterns, 1)

-----------------------------------------------------------------------------
(* The pattern tables of the numeric metrics *)

\* (?:亿|万|千)?(?:美元|元|RMB)?
CnUnits ==
  << [alts |-> << <<20159>>, <<19975>>, <<21315>> >>, optional |-> TRUE],
     [alts |-> << <<32654, 20803>>, <<20803>>, <<82, 77, 66>> >>, optional |-> TRUE] >>

EnUnitAlts ==
  << <<98, 105, 108, 108, 105, 111, 110>>, <<109, 105, 108, 108, 105, 111, 110>>, <<116, 104, 111, 117, 115, 97, 110, 100>> >>  \* billion|million|thousand

Pct == << [alts |-> << <<PERCENT>> >>, optional |-> FALSE] >>

\* KW.*?(\d+(?:\.\d+)?)\s*(?:亿|万|千)?(?:美元|元|RMB)?
KwNumCn(kw) == [shape |-> "kw_num", kw |-> kw, ws |-> TRUE, groups |-> CnUnits]
\* KW.*?(\d+(?:\.\d+)?)\s*(?:billion|million|thousand)?
KwNumEn(kw) ==
  [shape |-> "kw_num", kw |-> kw, ws |-> TRUE,
   groups |-> << [alts |-> EnUnitAlts, optional |-> TRUE] >>]
\* KW.*?(\d+(?:\.\d+)?)%
KwNumPct(kw) == [shape |-> "kw_num", kw |-> kw, ws |-> FALSE, groups |-> Pct]
\* (\d+(?:\.\d+)?)\s*(?:亿|万|千)?(?:美元|元|RMB)?.*?KW
NumCnKw(kw) == [shape |-> "num_kw", kw |-> kw, ws |-> TRUE, groups |-> CnUnits]
\* (\d+(?:\.\d+)?)\s*(?:billion|million|thousand).*?KW
NumEnKw(kw) ==
  [shape |-> "num_kw", kw |-> kw, ws |-> TRUE,
   groups |-> << [alts |-> EnUnitAlts, optional |-> FALSE] >>]
\* (\d+(?:\.\d+)?)%.*?KW
NumPctKw(kw) == [shape |-> "num_kw", kw |-> kw, ws |-> FALSE, groups |-> Pct]

\* _extract_financial_factors, lines 62-68
revenue_patterns ==
  << KwNumCn(<<33829, 25910>>),  \* r'营收.*?(\d+(?:\.\d+)?)\s*(?:亿|万|千)?(?:美元|元|RMB)?'
     KwNumCn(<<25910, 20837>>),  \* r'收入.*?(\d+(?:\.\d+)?)\s*(?:亿|万|千)?(?:美元|元|RMB)?'
     KwNumEn(<<114, 101, 118, 101, 110, 117, 101>>),  \* r'revenue.*?(\d+(?:\.\d+)?)\s*(?:billion|million|thousand)?'
     NumCnKw(<<33829, 25910>>),  \* r'(\d+(?:\.\d+)?)\s*(?:亿|万|千)?(?:美元|元|RMB)?.*?营收'
     NumEnKw(<<114, 101, 118, 101, 110, 117, 101>>) >>  \* r'(\d+(?:\.\d+)?)\s*(?:billion|million|thousand).*?revenue'

\* _extract_financial_factors, lines 79-85
profit_patterns ==
  << KwNumPct(<<21033, 28070, 29575>>),  \* r'利润率.*?(\d+(?:\.\d+)?)%'
     KwNumPct(<<27611, 21033, 29575>>),  \* r'毛利率.*?(\d+(?:\.\d+)?)%'
     KwNumPct(<<20928, 21033, 29575>>),  \* r'净利率.*?(\d+(?:\.\d+)?)%'
     KwNumPct(<<112, 114, 111, 102, 105, 116, 32, 109, 97, 114, 103, 105, 110>>),  \* r'profit margin.*?(\d+(?:\.\d+)?)%'
     NumPctKw(<<21033, 28070, 29575>>) >>  \* r'(\d+(?:\.\d+)?)%.*?利润率'

\* _extract_financial_factors, lines 96-101
growth_patterns ==
  << KwNumPct(<<22686, 38271, 29575>>),  \* r'增长率.*?(\d+(?:\.\d+)?)%'
     KwNumPct(<<22686, 38271>>),  \* r'增长.*?(\d+(?:\.\d+)?)%'
     KwNumPct(<<103, 114, 111, 119, 116, 104>>),  \* r'growth.*?(\d+(?:\.\d+)?)%'
     NumPctKw(<<22686, 38271>>) >>  \* r'(\d+(?:\.\d+)?)%.*?增长'

\* _extract_market_factors, lines 140-145
market_share_patterns ==
  << KwNumPct(<<24066, 22330, 20221, 39069>>),  \* r'市场份额.*?(\d+(?:\.\d+)?)%'
     KwNumPct(<<109, 97, 114, 107, 101, 116, 32, 115, 104, 97, 114, 101>>),  \* r'market share.*?(\d+(?:\.\d+)?)%'
     NumPctKw(<<24066, 22330, 20221, 39069>>),  \* r'(\d+(?:\.\d+)?)%.*?市场份额'
     NumPctKw(<<109, 97, 114, 107, 101, 116, 32, 115, 104, 97, 114, 101>>) >>  \* r'(\d+(?:\.\d+)?)%.*?market share'

\* _extract_growth_factors, lines 276-281
user_growth_patterns ==
  << KwNumPct(<<29992, 25143, 22686, 38271>>),  \* r'用户增长.*?(\d+(?:\.\d+)?)%'
     KwNumPct(<<29992, 25143, 22686, 38271, 29575>>),  \* r'用户增长率.*?(\d+(?:\.\d+)?)%'
     KwNumPct(<<117, 115, 101, 114, 32, 103, 114, 111, 119, 116, 104>>),  \* r'user growth.*?(\d+(?:\.\d+)?)%'
     NumPctKw(<<29992, 25143, 22686, 38271>>) >>  \* r'(\d+(?:\.\d+)?)%.*?用户增长'

-----------------------------------------------------------------------------
(* The keyword tables of the qualitative concepts *)

\* _extract_financial_factors, lines 112-112
cash_flow_indicators ==
  << <<29616, 37329, 27969>>,  \* '现金流'
     <<99, 97, 115, 104, 32, 102, 108, 111, 119>>,  \* 'cash flow'
     <<32463, 33829, 29616, 37329, 27969>>,  \* '经营现金流'
     <<111, 112, 101, 114, 97, 116, 105, 110, 103, 32, 99, 97, 115, 104, 32, 102, 108, 111, 119>> >>  \* 'operating cash flow'

\* _extract_financial_factors, lines 122-122
debt_indicators ==
  << <<36127, 20538, 29575>>,  \* '负债率'
     <<100, 101, 98, 116, 32, 114, 97, 116, 105, 111>>,  \* 'debt ratio'
     <<36164, 20135, 36127, 20538, 29575>>,  \* '资产负债率'
     <<100, 101, 98, 116, 45, 116, 111, 45, 101, 113, 117, 105, 116, 121>> >>  \* 'debt-to-equity'

\* _extract_market_factors, lines 156-159
market_position_indicators ==
  << <<24066, 22330, 39046, 23548, 32773>>,  \* '市场领导者'
     <<109, 97, 114, 107, 101, 116, 32, 108, 101, 97, 100, 101, 114>>,  \* 'market leader'
     <<34892, 19994, 31532, 19968>>,  \* '行业第一'
     <<108, 101, 97, 100, 105, 110, 103, 32, 112, 111, 115, 105, 116, 105, 111, 110>>,  \* 'leading position'
     <<24066, 22330, 39046, 20808>>,  \* '市场领先'
     <<109, 97, 114, 107, 101, 116, 32, 108, 101, 97, 100, 105, 110, 103>>,  \* 'market leading'
     <<34892, 19994, 40857, 22836>>,  \* '行业龙头'
     <<100, 111, 109, 105, 110, 97, 110, 116, 32, 112, 111, 115, 105, 116, 105, 111, 110>> >>  \* 'dominant position'

\* _extract_market_factors, lines 169-169
brand_indicators ==
  << <<21697, 29260>>,  \* '品牌'
     <<98, 114, 97, 110, 100>>,  \* 'brand'
     <<21697, 29260, 20215, 20540>>,  \* '品牌价值'
     <<98, 114, 97, 110, 100, 32, 118, 97, 108, 117, 101>>,  \* 'brand value'
     <<21697, 29260, 30693, 21517, 24230>>,  \* '品牌知名度'
     <<98, 114, 97, 110, 100, 32, 97, 119, 97, 114, 101, 110, 101, 115, 115>> >>  \* 'brand awareness'

\* _extract_market_factors, lines 179-179
customer_indicators ==
  << <<23458, 25143, 28385, 24847, 24230>>,  \* '客户满意度'
     <<99, 117, 115, 116, 111, 109, 101, 114, 32, 115, 97, 116, 105, 115, 102, 97, 99, 116, 105, 111, 110>>,  \* 'customer satisfaction'
     <<29992, 25143, 28385, 24847, 24230>>,  \* '用户满意度'
     <<117, 115, 101, 114, 32, 115, 97, 116, 105, 115, 102, 97, 99, 116, 105, 111, 110>> >>  \* 'user satisfaction'

\* _extract_market_factors, lines 189-189
coverage_indicators ==
  << <<20840, 29699>>,  \* '全球'
     <<103, 108, 111, 98, 97, 108>>,  \* 'global'
     <<22269, 38469, 21270>>,  \* '国际化'
     <<105, 110, 116, 101, 114, 110, 97, 116, 105, 111, 110, 97, 108>>,  \* 'international'
     <<35206, 30422>>,  \* '覆盖'
     <<99, 111, 118, 101, 114, 97, 103, 101>> >>  \* 'coverage'

\* _extract_competitive_factors, lines 205-208
competitive_advantage_indicators ==
  << <<31454, 20105, 20248, 21183>>,  \* '竞争优势'
     <<99, 111, 109, 112, 101, 116, 105, 116, 105, 118, 101, 32, 97, 100, 118, 97, 110, 116, 97, 103, 101>>,  \* 'competitive advantage'
     <<26680, 24515, 31454, 20105, 21147>>,  \* '核心竞争力'
     <<99, 111, 114, 101, 32, 99, 111, 109, 112, 101, 116, 101, 110, 99, 121>>,  \* 'core competency'
     <<24046, 24322, 21270>>,  \* '差异化'
     <<100, 105, 102, 102, 101, 114, 101, 110, 116, 105, 97, 116, 105, 111, 110>>,  \* 'differentiation'
     <<29420, 29305, 20248, 21183>>,  \* '独特优势'
     <<117, 110, 105, 113, 117, 101, 32, 97, 100, 118, 97, 110, 116, 97, 103, 101>> >>  \* 'unique advantage'

\* _extract_competitive_factors, lines 218-221
tech_advantage_indicators ==
  << <<25216, 26415, 20248, 21183>>,  \* '技术优势'
     <<116, 101, 99, 104, 110, 105, 99, 97, 108, 32, 97, 100, 118, 97, 110, 116, 97, 103, 101>>,  \* 'technical advantage'
     <<25216, 26415, 21019, 26032>>,  \* '技术创新'
     <<116, 101, 99, 104, 110, 111, 108, 111, 103, 121, 32, 105, 110, 110, 111, 118, 97, 116, 105, 111, 110>>,  \* 'technology innovation'
     <<19987, 21033>>,  \* '专利'
     <<112, 97, 116, 101, 110, 116>>,  \* 'patent'
     <<30693, 35782, 20135, 26435>>,  \* '知识产权'
     <<105, 110, 116, 101, 108, 108, 101, 99, 116, 117, 97, 108, 32, 112, 114, 111, 112, 101, 114, 116, 121>> >>  \* 'intellectual property'

\* _extract_competitive_factors, lines 231-234
cost_advantage_indicators ==
  << <<25104, 26412, 20248, 21183>>,  \* '成本优势'
     <<99, 111, 115, 116, 32, 97, 100, 118, 97, 110, 116, 97, 103, 101>>,  \* 'cost advantage'
     <<25104, 26412, 25511, 21046>>,  \* '成本控制'
     <<99, 111, 115, 116, 32, 99, 111, 110, 116, 114, 111, 108>>,  \* 'cost control'
     <<35268, 27169, 25928, 24212>>,  \* '规模效应'
     <<101, 99, 111, 110, 111, 109, 105, 101, 115, 32, 111, 102, 32, 115, 99, 97, 108, 101>>,  \* 'economies of scale'
     <<25928, 29575>>,  \* '效率'
     <<101, 102, 102, 105, 99, 105, 101, 110, 99, 121>> >>  \* 'efficiency'

\* _extract_competitive_factors, lines 244-247
channel_advantage_indicators ==
  << <<28192, 36947>>,  \* '渠道'
     <<99, 104, 97, 110, 110, 101, 108>>,  \* 'channel'
     <<20998, 38144, 32593, 32476>>,  \* '分销网络'
     <<100, 105, 115, 116, 114, 105, 98, 117, 116, 105, 111, 110, 32, 110, 101, 116, 119, 111, 114, 107>>,  \* 'distribution network'
     <<21512, 20316, 20249, 20276>>,  \* '合作伙伴'
     <<112, 97, 114, 116, 110, 101, 114, 115, 104, 105, 112>>,  \* 'partnership'
     <<29983, 24577, 31995, 32479>>,  \* '生态系统'
     <<101, 99, 111, 115, 121, 115, 116, 101, 109>> >>  \* 'ecosystem'

\* _extract_competitive_factors, lines 257-260
talent_advantage_indicators ==
  << <<20154, 25165>>,  \* '人才'
     <<116, 97, 108, 101, 110, 116>>,  \* 'talent'
     <<22242, 38431>>,  \* '团队'
     <<116, 101, 97, 109>>,  \* 'team'
     <<19987, 23478>>,  \* '专家'
     <<101, 120, 112, 101, 114, 116>>,  \* 'expert'
     <<31649, 29702, 22242, 38431>>,  \* '管理团队'
     <<109, 97, 110, 97, 103, 101, 109, 101, 110, 116, 32, 116, 101, 97, 109>>,  \* 'management team'
     <<39046, 23548, 21147>>,  \* '领导力'
     <<108, 101, 97, 100, 101, 114, 115, 104, 105, 112>> >>  \* 'leadership'

\* _extract_growth_factors, lines 292-295
innovation_indicators ==
  << <<21019, 26032>>,  \* '创新'
     <<105, 110, 110, 111, 118, 97, 116, 105, 111, 110>>,  \* 'innovation'
     <<26032, 20135, 21697>>,  \* '新产品'
     <<110, 101, 119, 32, 112, 114, 111, 100, 117, 99, 116>>,  \* 'new product'
     <<30740, 21457>>,  \* '研发'
     <<82, 38, 68>>,  \* 'R&D'
     <<25216, 26415, 31361, 30772>>,  \* '技术突破'
     <<98, 114, 101, 97, 107, 116, 104, 114, 111, 117, 103, 104>>,  \* 'breakthrough'
     <<21019, 26032, 20135, 21697>>,  \* '创新产品'
     <<105, 110, 110, 111, 118, 97, 116, 105, 118, 101, 32, 112, 114, 111, 100, 117, 99, 116>> >>  \* 'innovative product'

\* _extract_growth_factors, lines 305-308
international_indicators ==
  << <<22269, 38469, 21270>>,  \* '国际化'
     <<105, 110, 116, 101, 114, 110, 97, 116, 105, 111, 110, 97, 108>>,  \* 'international'
     <<20840, 29699>>,  \* '全球'
     <<103, 108, 111, 98, 97, 108>>,  \* 'global'
     <<28023, 22806>>,  \* '海外'
     <<111, 118, 101, 114, 115, 101, 97, 115>>,  \* 'overseas'
     <<22269, 38469, 24066, 22330>>,  \* '国际市场'
     <<105, 110, 116, 101, 114, 110, 97, 116, 105, 111, 110, 97, 108, 32, 109, 97, 114, 107, 101, 116>>,  \* 'international market'
     <<20840, 29699, 21270>>,  \* '全球化'
     <<103, 108, 111, 98, 97, 108, 105, 122, 97, 116, 105, 111, 110>> >>  \* 'globalization'

\* _extract_growth_factors, lines 318-321
expansion_indicators ==
  << <<24182, 36141>>,  \* '并购'
     <<97, 99, 113, 117, 105, 115, 105, 116, 105, 111, 110>>,  \* 'acquisition'
     <<25910, 36141>>,  \* '收购'
     <<109, 101, 114, 103, 101, 114>>,  \* 'merger'
     <<25193, 24352>>,  \* '扩张'
     <<101, 120, 112, 97, 110, 115, 105, 111, 110>>,  \* 'expansion'
     <<25237, 36164>>,  \* '投资'
     <<105, 110, 118, 101, 115, 116, 109, 101, 110, 116>>,  \* 'investment'
     <<25112, 30053, 25237, 36164>>,  \* '战略投资'
     <<115, 116, 114, 97, 116, 101, 103, 105, 99, 32, 105, 110, 118, 101, 115, 116, 109, 101, 110, 116>> >>  \* 'strategic investment'

\* _extract_growth_factors, lines 331-334
market_expansion_indicators ==
  << <<24066, 22330, 25299, 23637>>,  \* '市场拓展'
     <<109, 97, 114, 107, 101, 116, 32, 101, 120, 112, 97, 110, 115, 105, 111, 110>>,  \* 'market expansion'
     <<26032, 24066, 22330>>,  \* '新市场'
     <<110, 101, 119, 32, 109, 97, 114, 107, 101, 116>>,  \* 'new market'
     <<19994, 21153, 25299, 23637>>,  \* '业务拓展'
     <<98, 117, 115, 105, 110, 101, 115, 115, 32, 101, 120, 112, 97, 110, 115, 105, 111, 110>>,  \* 'business expansion'
     <<22810, 20803, 21270>>,  \* '多元化'
     <<100, 105, 118, 101, 114, 115, 105, 102, 105, 99, 97, 116, 105, 111, 110>> >>  \* 'diversification'

\* _extract_tech_factors, lines 350-353
tech_capability_indicators ==
  << <<25216, 26415, 23454, 21147>>,  \* '技术实力'
     <<116, 101, 99, 104, 110, 105, 99, 97, 108, 32, 99, 97, 112, 97, 98, 105, 108, 105, 116, 121>>,  \* 'technical capability'
     <<25216, 26415, 39046, 20808>>,  \* '技术领先'
     <<116, 101, 99, 104, 110, 111, 108, 111, 103, 121, 32, 108, 101, 97, 100, 101, 114, 115, 104, 105, 112>>,  \* 'technology leadership'
     <<26680, 24515, 25216, 26415>>,  \* '核心技术'
     <<99, 111, 114, 101, 32, 116, 101, 99, 104, 110, 111, 108, 111, 103, 121>>,  \* 'core technology'
     <<25216, 26415, 20248, 21183>>,  \* '技术优势'
     <<116, 101, 99, 104, 110, 105, 99, 97, 108, 32, 97, 100, 118, 97, 110, 116, 97, 103, 101>> >>  \* 'technical advantage'

\* _extract_tech_factors, lines 363-366
ai_indicators ==
  << <<20154, 24037, 26234, 33021>>,  \* '人工智能'
     <<65, 73>>,  \* 'AI'
     <<97, 114, 116, 105, 102, 105, 99, 105, 97, 108, 32, 105, 110, 116, 101, 108, 108, 105, 103, 101, 110, 99, 101>>,  \* 'artificial intelligence'
     <<26426, 22120, 23398, 20064>>,  \* '机器学习'
     <<109, 97, 99, 104, 105, 110, 101, 32, 108, 101, 97, 114, 110, 105, 110, 103>>,  \* 'machine learning'
     <<28145, 24230, 23398, 20064>>,  \* '深度学习'
     <<100, 101, 101, 112, 32, 108, 101, 97, 114, 110, 105, 110, 103>>,  \* 'deep learning'
     <<31639, 27861>>,  \* '算法'
     <<97, 108, 103, 111, 114, 105, 116, 104, 109>>,  \* 'algorithm'
     <<26234, 33021>>,  \* '智能'
     <<105, 110, 116, 101, 108, 108, 105, 103, 101, 110, 116>> >>  \* 'intelligent'

\* _extract_tech_factors, lines 376-379
data_indicators ==
  << <<25968, 25454>>,  \* '数据'
     <<100, 97, 116, 97>>,  \* 'data'
     <<22823, 25968, 25454>>,  \* '大数据'
     <<98, 105, 103, 32, 100, 97, 116, 97>>,  \* 'big data'
     <<25968, 25454, 20998, 26512>>,  \* '数据分析'
     <<100, 97, 116, 97, 32, 97, 110, 97, 108, 121, 116, 105, 99, 115>>,  \* 'data analytics'
     <<25968, 25454, 25366, 25496>>,  \* '数据挖掘'
     <<100, 97, 116, 97, 32, 109, 105, 110, 105, 110, 103>>,  \* 'data mining'
     <<25968, 25454, 39537, 21160>>,  \* '数据驱动'
     <<100, 97, 116, 97, 45, 100, 114, 105, 118, 101, 110>> >>  \* 'data-driven'

\* _extract_tech_factors, lines 389-392
cloud_indicators ==
  << <<20113, 35745, 31639>>,  \* '云计算'
     <<99, 108, 111, 117, 100, 32, 99, 111, 109, 112, 117, 116, 105, 110, 103>>,  \* 'cloud computing'
     <<20113, 26381, 21153>>,  \* '云服务'
     <<99, 108, 111, 117, 100, 32, 115, 101, 114, 118, 105, 99, 101>>,  \* 'cloud service'
     <<20113, 24179, 21488>>,  \* '云平台'
     <<99, 108, 111, 117, 100, 32, 112, 108, 97, 116, 102, 111, 114, 109>>,  \* 'cloud platform'
     <<20113, 31471>>,  \* '云端'
     <<99, 108, 111, 117, 100>> >>  \* 'cloud'

\* _extract_tech_factors, lines 402-405
mobile_indicators ==
  << <<31227, 21160>>,  \* '移动'
     <<109, 111, 98, 105, 108, 101>>,  \* 'mobile'
     <<31227, 21160, 24212, 29992>>,  \* '移动应用'
     <<109, 111, 98, 105, 108, 101, 32, 97, 112, 112>>,  \* 'mobile app'
     <<31227, 21160, 24179, 21488>>,  \* '移动平台'
     <<109, 111, 98, 105, 108, 101, 32, 112, 108, 97, 116, 102, 111, 114, 109>>,  \* 'mobile platform'
     <<31227, 21160, 20114, 32852, 32593>>,  \* '移动互联网'
     <<109, 111, 98, 105, 108, 101, 32, 105, 110, 116, 101, 114, 110, 101, 116>>,  \* 'mobile internet'
     <<31227, 21160, 25216, 26415>>,  \* '移动技术'
     <<109, 111, 98, 105, 108, 101, 32, 116, 101, 99, 104, 110, 111, 108, 111, 103, 121>> >>  \* 'mobile technology'

-----------------------------------------------------------------------------
(* The three shapes of block the scanners are made of *)

Factor(name, value, weight) == [name |-> name, value |-> value, weight |-> weight]

\* NumericAppend without the upper clamp
NumericAppend_NoClamp(v, name, divisor, weight) ==
  IF RLt(RInt(0), v)
  THEN << Factor(name, RDivPos(v, RInt(divisor)), weight) >>
  ELSE <<>>

\* if v > 0: factors.append({name, min(v / divisor, 10.0), weight})
NumericAppend(v, name, divisor, weight) ==
  IF RLt(RInt(0), v)
  THEN << Factor(name, RMin(RDivPos(v, RInt(divisor)), RInt(10)), weight) >>
  ELSE <<>>

\* v = self._extract_numeric_value(report_text, patterns, name), then the above
NumericFactor(text, patterns, name, divisor, weight) ==
  NumericAppend(_extract_numeric_value(text, patterns), name, divisor, weight)

\* if score > 0: factors.append({name, score, weight})
KeywordAppend(score, name, weight) ==
  IF RLt(RInt(0), score) THEN << Factor(name, score, weight) >> ELSE <<>>

\* score = self._calculate_text_importance(report_text, indicators), then the above
KeywordFactor(text, indicators, name, weight) ==
  KeywordAppend(_calculate_text_importance(text, indicators), name, weight)

\* if debt_score > 0: health_score = max(0, 10.0 - debt_score * 5), appended
HealthAppend(debt_score, name, weight) ==
  IF RLt(RInt(0), debt_score)
  THEN << Factor(name, RMax(RInt(0), RSub(RInt(10), RMul(debt_score, RInt(5)))), weight) >>
  ELSE <<>>

\* debt_score = self._calculate_text_importance(report_text, debt_indicators)
HealthFactor(text, indicators, name, weight) ==
  HealthAppend(_calculate_text_importance(text, indicators), name, weight)

-----------------------------------------------------------------------------
(* The five numeric metrics: pattern list, factor name, divisor, weight *)

\* '营收规模', lines 70-76
revenue_metric ==
  [patterns |-> revenue_patterns, name |-> <<33829, 25910, 35268, 27169>>, divisor |-> 100, weight |-> Rat(25, 100)]

\* '利润率', lines 87-93
profit_metric ==
  [patterns |-> profit_patterns, name |-> <<21033, 28070, 29575>>, divisor |-> 10, weight |-> Rat(25, 100)]

\* '财务增长率', lines 103-109
growth_metric ==
  [patterns |-> growth_patterns, name |-> <<36130, 21153, 22686, 38271, 29575>>, divisor |-> 5, weight |-> Rat(20, 100)]

\* '市场份额', lines 147-153
market_share_metric ==
  [patterns |-> market_share_patterns, name |-> <<24066, 22330, 20221, 39069>>, divisor |-> 2, weight |-> Rat(30, 100)]

\* '用户增长率', lines 283-289
user_growth_metric ==
  [patterns |-> user_growth_patterns, name |-> <<29992, 25143, 22686, 38271, 29575>>, divisor |-> 3, weight |-> Rat(25, 100)]

MetricFactor(text, m) == NumericFactor(text, m.patterns, m.name, m.divisor, m.weight)

-----------------------------------------------------------------------------
(* The five scanners *)

\* lines 57-133
_extract_financial_factors(text) ==
     MetricFactor(text, revenue_metric)  \* '营收规模', lines 70-76
  \o MetricFactor(text, profit_metric)  \* '利润率', lines 87-93
  \o MetricFactor(text, growth_metric)  \* '财务增长率', lines 103-109
  \o KeywordFactor(text, cash_flow_indicators, <<29616, 37329, 27969, 20581, 24247, 24230>>, Rat(15, 100))  \* '现金流健康度', lines 113-119
  \o HealthFactor(text, debt_indicators, <<36130, 21153, 20581, 24247, 24230>>, Rat(15, 100))  \* '财务健康度', lines 123-131

\* lines 135-198
_extract_market_factors(text) ==
     MetricFactor(text, market_share_metric)  \* '市场份额', lines 147-153
  \o KeywordFactor(text, market_position_indicators, <<24066, 22330, 22320, 20301>>, Rat(25, 100))  \* '市场地位', lines 160-166
  \o KeywordFactor(text, brand_indicators, <<21697, 29260, 24433, 21709, 21147>>, Rat(20, 100))  \* '品牌影响力', lines 170-176
  \o KeywordFactor(text, customer_indicators, <<23458, 25143, 28385, 24847, 24230>>, Rat(15, 100))  \* '客户满意度', lines 180-186
  \o KeywordFactor(text, coverage_indicators, <<24066, 22330, 35206, 30422, 24230>>, Rat(10, 100))  \* '市场覆盖度', lines 190-196

\* lines 200-269
_extract_competitive_factors(text) ==
     KeywordFactor(text, competitive_advantage_indicators, <<31454, 20105, 20248, 21183>>, Rat(30, 100))  \* '竞争优势', lines 209-215
  \o KeywordFactor(text, tech_advantage_indicators, <<25216, 26415, 20248, 21183>>, Rat(25, 100))  \* '技术优势', lines 222-228
  \o KeywordFactor(text, cost_advantage_indicators, <<25104, 26412, 20248, 21183>>, Rat(20, 100))  \* '成本优势', lines 235-241
  \o KeywordFactor(text, channel_advantage_indicators, <<28192, 36947, 20248, 21183>>, Rat(15, 100))  \* '渠道优势', lines 248-254
  \o KeywordFactor(text, talent_advantage_indicators, <<20154, 25165, 20248, 21183>>, Rat(10, 100))  \* '人才优势', lines 261-267

\* lines 271-343
_extract_growth_factors(text) ==
     MetricFactor(text, user_growth_metric)  \* '用户增长率', lines 283-289
  \o KeywordFactor(text, innovation_indicators, <<21019, 26032, 33021, 21147>>, Rat(25, 100))  \* '创新能力', lines 296-302
  \o KeywordFactor(text, international_indicators, <<22269, 38469, 21270, 31243, 24230>>, Rat(20, 100))  \* '国际化程度', lines 309-315
  \o KeywordFactor(text, expansion_indicators, <<25193, 24352, 33021, 21147>>, Rat(15, 100))  \* '扩张能力', lines 322-328
  \o KeywordFactor(text, market_expansion_indicators, <<24066, 22330, 25299, 23637>>, Rat(15, 100))  \* '市场拓展', lines 335-341

\* lines 345-414
_extract_tech_factors(text) ==
     KeywordFactor(text, tech_capability_indicators, <<25216, 26415, 23454, 21147>>, Rat(30, 100))  \* '技术实力', lines 354-360
  \o KeywordFactor(text, ai_indicators, <<65, 73, 25216, 26415>>, Rat(25, 100))  \* 'AI技术', lines 367-373
  \o KeywordFactor(text, data_indicators, <<25968, 25454, 33021, 21147>>, Rat(20, 100))  \* '数据能力', lines 380-386
  \o KeywordFactor(text, cloud_indicators, <<20113, 35745, 31639>>, Rat(15, 100))  \* '云计算', lines 393-399
  \o KeywordFactor(text, mobile_indicators, <<31227, 21160, 25216, 26415>>, Rat(10, 100))  \* '移动技术', lines 406-412

-----------------------------------------------------------------------------
(* _get_default_factors *)

_get_default_factors ==
  << Factor(<<20449, 24687, 20016, 23500, 24230>>, RInt(5), Rat(20, 100)),  \* '信息丰富度'
     Factor(<<25968, 25454, 21487, 20449, 24230>>, RInt(5), Rat(25, 100)),  \* '数据可信度'
     Factor(<<36130, 21153, 20581, 24247, 24230>>, RInt(5), Rat(30, 100)),  \* '财务健康度'
     Factor(<<24066, 22330, 27963, 36291, 24230>>, RInt(5), Rat(25, 100)) >>  \* '市场活跃度'

-----------------------------------------------------------------------------
(* Python values a payload can hold under 'report' *)

StrVal(chars) == [type |-> "str", chars |-> chars, num |-> 0]
IntVal(n) == [type |-> "int", chars |-> <<>>, num |-> n]
NoneVal == [type |-> "NoneType", chars |-> <<>>, num |-> 0]

\* bool(v)
Truthy(v) ==
  CASE v.type = "str" -> Len(v.chars) > 0
    [] v.type = "int" -> v.num # 0
    [] OTHER -> FALSE

\* a mapping with a 'report' entry, a mapping without one, or an object that
\* is no mapping at all (None)
DictWith(v) == [kind |-> "dict", has_report |-> TRUE, report |-> v]
DictWithout == [kind |-> "dict", has_report |-> FALSE, report |-> NoneVal]
NotADict == [kind |-> "NoneType", has_report |-> FALSE, report |-> NoneVal]

\* tavily_data.get('report', '')
GetReport(d) == IF d.has_report THEN d.report ELSE StrVal(<<>>)

\* the report texts of the model: up to MaxWords of these words, run together
ExtractVocab ==
  { <<33829, 25910>>,  \* '营收'
    <<49, 53, 48, 48>>,  \* '1500'
    <<29992, 25143, 22686, 38271>>,  \* '用户增长'
    <<51, 48, 37>>,  \* '30%'
    <<36164, 20135, 36127, 20538, 29575>>,  \* '资产负债率'
    <<65, 73>>,  \* 'AI'
    <<20844, 21496>>,  \* '公司'
    <<NEWLINE>> }

ExtractTexts == {Concat(ws) : ws \in SeqsUpTo(ExtractVocab, MaxWords)}

Payloads ==
  {DictWith(StrVal(t)) : t \in ExtractTexts}
    \cup {DictWith(IntVal(0)), DictWith(IntVal(123)), DictWith(NoneVal),
          DictWithout, NotADict}

-----------------------------------------------------------------------------
(* extract_factors_from_tavily_data, one step per statement group *)

NoResult == [kind |-> "none", list |-> <<>>]
Returned(l) == [kind |-> "returned", list |-> l]
Raised == [kind |-> "raised", list |-> <<>>]

Idle == [fn |-> "none"]

\* Begin without the early return on a falsy report
Begin_NoEarlyReturn ==
  /\ pc = "start"
  /\ IF tavily_data.kind # "dict"
     THEN /\ result' = Raised
          /\ pc' = "done"
          /\ UNCHANGED report_text
     ELSE /\ report_text' = GetReport(tavily_data)
          /\ result' = result
          /\ pc' = "financial"
  /\ UNCHANGED <<tavily_data, factors, invoked, call, ret>>

\* lines 22-27: AttributeError escapes when the payload has no .get; an
\* absent or falsy report returns the defaults before any scanner runs
Begin ==
  /\ pc = "start"
  /\ IF tavily_data.kind # "dict"
     THEN /\ result' = Raised
          /\ pc' = "done"
          /\ UNCHANGED report_text
     ELSE /\ report_text' = GetReport(tavily_data)
          /\ IF ~Truthy(GetReport(tavily_data))
             THEN result' = Returned(_get_default_factors) /\ pc' = "done"
             ELSE result' = result /\ pc' = "financial"
  /\ UNCHANGED <<tavily_data, factors, invoked, call, ret>>

\* Scan putting the scanner's output in front of the list
Scan_Prepend(here, scanner_output, next) ==
  /\ pc = here
  /\ invoked' = Append(invoked, here)
  /\ IF report_text.type = "str"
     THEN factors' = scanner_output \o factors /\ pc' = next
     ELSE factors' = factors /\ pc' = "except"
  /\ UNCHANGED <<tavily_data, report_text, result, call, ret>>

\* One scanner call inside the try block, then factors.extend(...).  On a
\* report that is no str the scanner raises (re.findall: TypeError,
\* text.lower(): AttributeError) and control passes to the except clause.
Scan(here, scanner_output, next) ==
  /\ pc = here
  /\ invoked' = Append(invoked, here)
  /\ IF report_text.type = "str"
     THEN factors' = factors \o scanner_output /\ pc' = next
     ELSE factors' = factors /\ pc' = "except"
  /\ UNCHANGED <<tavily_data, report_text, result, call, ret>>

\* lines 31-32
ScanFinancial ==
  Scan("financial", _extract_financial_factors(report_text.chars), "market")
\* lines 35-36
ScanMarket ==
  Scan("market", _extract_market_factors(report_text.chars), "competitive")
\* lines 39-40
ScanCompetitive ==
  Scan("competitive", _extract_competitive_factors(report_text.chars), "growth")
\* lines 43-44
ScanGrowth ==
  Scan("growth", _extract_growth_factors(report_text.chars), "tech")
\* lines 47-48
ScanTech ==
  Scan("tech", _extract_tech_factors(report_text.chars), "return")

\* lines 50-51
ReturnFactors ==
  /\ pc = "return"
  /\ result' = Returned(factors)
  /\ pc' = "done"
  /\ UNCHANGED <<tavily_data, report_text, factors, invoked, call, ret>>

\* lines 53-55
ExceptReturn ==
  /\ pc = "except"
  /\ result' = Returned(_get_default_factors)
  /\ pc' = "done"
  /\ UNCHANGED <<tavily_data, report_text, factors, invoked, call, ret>>

InitExtract ==
  /\ tavily_data \in Payloads
  /\ pc = "start"
  /\ report_text = NoneVal
  /\ factors = <<>>
  /\ invoked = <<>>
  /\ result = NoResult
  /\ call = Idle
  /\ ret = Idle

NextExtract ==
  \/ Begin
  \/ ScanFinancial
  \/ ScanMarket
  \/ ScanCompetitive
  \/ ScanGrowth
  \/ ScanTech
  \/ ReturnFactors
  \/ ExceptReturn

SpecExtract == InitExtract /\ [][NextExtract]_vars

-----------------------------------------------------------------------------
(* extract_features_from_factors *)

\* self.feature_qubits
feature_qubits == 4

\* dict.get(key, default); a dict is a function on the keys it holds
DictGet(d, key, default) == IF key \in DOMAIN d THEN d[key] ELSE default

\* lines 485-491: value * weight of every factor, in order
WeightedValues(fs) ==
  [i \in 1..Len(fs) |->
     RMul(DictGet(fs[i], "value", RInt(0)), DictGet(fs[i], "weight", RInt(0)))]

\* lines 494-495: while len(features) < self.feature_qubits: features.append(0.0)
RECURSIVE PadFeatures(_)
PadFeatures(features) ==
  IF Len(features) < feature_qubits THEN PadFeatures(Append(features, RInt(0)))
  ELSE features

\* Truncate keeping the last K elements
Truncate_Last(features) ==
  SubSeq(features, Len(features) - Min2(feature_qubits, Len(features)) + 1, Len(features))

\* line 498: features[:self.feature_qubits]
Truncate(features) == SubSeq(features, 1, Min2(feature_qubits, Len(features)))

\* np.max and np.min of a non-empty array
RECURSIVE ArrayMax(_)
ArrayMax(xs) == IF Len(xs) = 1 THEN xs[1] ELSE RMax(xs[1], ArrayMax(Tail(xs)))

RECURSIVE ArrayMin(_)
ArrayMin(xs) == IF Len(xs) = 1 THEN xs[1] ELSE RMin(xs[1], ArrayMin(Tail(xs)))

\* np.abs, elementwise
ArrayAbs(xs) == [i \in 1..Len(xs) |-> RAbs(xs[i])]

\* An element of the result: the float x, the float x * 2 * pi, or nan
Plain(x) == [kind |-> "float", v |-> x]
Angle(x) == [kind |-> "times_2pi", v |-> x]
NaN == [kind |-> "nan", v |-> RInt(0)]

\* line 500: (features - lo) / (hi - lo) * 2 * np.pi, elementwise.  When
\* hi = lo every element equals lo, and numpy divides 0.0 by 0.0 to nan
\* (a RuntimeWarning, no exception).
NormalizeBy(features, lo, hi) ==
  [i \in 1..Len(features) |->
     IF hi = lo THEN NaN
     ELSE Angle(RDivPos(RSub(features[i], lo), RSub(hi, lo)))]

\* Normalize without the guard on the largest absolute value
Normalize_Unguarded(features) ==
  NormalizeBy(features, ArrayMin(features), ArrayMax(features))

\* lines 499-502
Normalize(features) ==
  IF RLt(RInt(0), ArrayMax(ArrayAbs(features)))
  THEN NormalizeBy(features, ArrayMin(features), ArrayMax(features))
  ELSE [i \in 1..Len(features) |-> Plain(features[i])]

\* whether line 500 runs with np.max(features) - np.min(features) == 0
DividesByZero(features) ==
  /\ RLt(RInt(0), ArrayMax(ArrayAbs(features)))
  /\ ArrayMax(features) = ArrayMin(features)

\* the array of line 498
FeatureArray(fs) == Truncate(PadFeatures(WeightedValues(fs)))

extract_features_from_factors(fs) == Normalize(FeatureArray(fs))

-----------------------------------------------------------------------------
(* Calls of extract_features_from_factors on factor lists of every length  *)
(* up to MaxFactors, some factors lacking a key                            *)

FeatureInputs ==
  { Factor(<<120>>, RInt(5), Rat(20, 100)),
    Factor(<<120>>, RInt(5), Rat(30, 100)),
    Factor(<<120>>, RInt(10), Rat(20, 100)),
    Factor(<<120>>, RInt(0), Rat(30, 100)),
    [name |-> <<120>>, value |-> RInt(5)],
    [name |-> <<120>>, weight |-> Rat(30, 100)] }

InitFeatures ==
  /\ call \in {[fn |-> "features", factors |-> fs] : fs \in SeqsUpTo(FeatureInputs, MaxFactors)}
  /\ ret = Idle
  /\ tavily_data = NotADict
  /\ pc = "idle"
  /\ report_text = NoneVal
  /\ factors = <<>>
  /\ invoked = <<>>
  /\ result = NoResult

CallFeatures ==
  /\ call.fn = "features"
  /\ ret = Idle
  /\ ret' = [fn |-> "features",
             features |-> extract_features_from_factors(call.factors),
             zero_division |-> DividesByZero(FeatureArray(call.factors))]
  /\ UNCHANGED <<call, extractVars>>

SpecFeatures == InitFeatures /\ [][CallFeatures]_vars

-----------------------------------------------------------------------------
(* Calls of _calculate_text_importance, and of the scanner block that uses *)
(* its score, on every text of at most MaxTextLen characters 'a', 'A', 'b' *)

ImportanceAlphabet == {97, 65, 98}

IndicatorSets ==
  { <<>>,
    << <<65>> >>,                                    \* ['A']
    << <<97>>, <<99>> >>,                            \* ['a', 'c']
    << <<97, 97>>, <<98>> >>,                        \* ['aa', 'b']
    << <<97, 98>>, <<66, 97>>, <<99>>, <<98, 98>> >> }  \* ['ab', 'Ba', 'c', 'bb']

InitImportance ==
  /\ call \in {[fn |-> "importance", text |-> t, indicators |-> ks] :
                 t \in SeqsUpTo(ImportanceAlphabet, MaxTextLen), ks \in IndicatorSets}
  /\ ret = Idle
  /\ tavily_data = NotADict
  /\ pc = "idle"
  /\ report_text = NoneVal
  /\ factors = <<>>
  /\ invoked = <<>>
  /\ result = NoResult

CallImportance ==
  /\ call.fn = "importance"
  /\ ret = Idle
  /\ ret' = [fn |-> "importance",
             score |-> _calculate_text_importance(call.text, call.indicators),
             appended |-> KeywordFactor(call.text, call.indicators, <<120>>, Rat(15, 100))]
  /\ UNCHANGED <<call, extractVars>>

SpecImportance == InitImportance /\ [][CallImportance]_vars

-----------------------------------------------------------------------------
(* Calls of _extract_numeric_value, and of the scanner block that uses its *)
(* value, for each of the five metrics on texts of at most MaxNumWords     *)
(* words                                                                   *)

NumericVocab ==
  { <<33829, 25910>>,  \* '营收'
    <<25910, 20837>>,  \* '收入'
    <<50, 48, 48>>,  \* '200'
    <<48>>,  \* '0'
    <<48, 37>>,  \* '0%'
    <<51, 55, 37>>,  \* '37%'
    <<22686, 38271>>,  \* '增长'
    <<21033, 28070, 29575>>,  \* '利润率'
    <<24066, 22330, 20221, 39069>>,  \* '市场份额'
    <<29992, 25143>>,  \* '用户'
    <<NEWLINE>> }

NumericTexts == {Concat(ws) : ws \in SeqsUpTo(NumericVocab, MaxNumWords)}

Metrics ==
  {revenue_metric, profit_metric, growth_metric, market_share_metric, user_growth_metric}

InitNumeric ==
  /\ call \in {[fn |-> "numeric", text |-> t, metric |-> m] :
                 t \in NumericTexts, m \in Metrics}
  /\ ret = Idle
  /\ tavily_data = NotADict
  /\ pc = "idle"
  /\ report_text = NoneVal
  /\ factors = <<>>
  /\ invoked = <<>>
  /\ result = NoResult

CallNumeric ==
  /\ call.fn = "numeric"
  /\ ret = Idle
  /\ ret' = [fn |-> "numeric",
             value |-> _extract_numeric_value(call.text, call.metric.patterns),
             appended |-> MetricFactor(call.text, call.metric)]
  /\ UNCHANGED <<call, extractVars>>

SpecNumeric == InitNumeric /\ [][CallNumeric]_vars

-----------------------------------------------------------------------------
(* Properties of extract_factors_from_tavily_data, under SpecExtract *)

Done == pc = "done"
ReturnedList == result.kind = "returned"

\* the payload is a mapping whose report is a non-empty str
HasText == tavily_data.kind = "dict" /\ tavily_data.has_report
             /\ tavily_data.report.type = "str" /\ tavily_data.report.chars # <<>>

\* the five scanners' outputs on the payload's text, in the documented order
AllScanned ==
  _extract_financial_factors(tavily_data.report.chars)
    \o _extract_market_factors(tavily_data.report.chars)
    \o _extract_competitive_factors(tavily_data.report.chars)
    \o _extract_growth_factors(tavily_data.report.chars)
    \o _extract_tech_factors(tavily_data.report.chars)

\* the default factor set as the documentation gives it
DocumentedDefaults ==
  << [name |-> <<20449, 24687, 20016, 23500, 24230>>, value |-> [num |-> 5, den |-> 1], weight |-> [num |-> 1, den |-> 5]],
     [name |-> <<25968, 25454, 21487, 20449, 24230>>, value |-> [num |-> 5, den |-> 1], weight |-> [num |-> 1, den |-> 4]],
     [name |-> <<36130, 21153, 20581, 24247, 24230>>, value |-> [num |-> 5, den |-> 1], weight |-> [num |-> 3, den |-> 10]],
     [name |-> <<24066, 22330, 27963, 36291, 24230>>, value |-> [num |-> 5, den |-> 1], weight |-> [num |-> 1, den |-> 4]] >>

\* C1: every call returns a non-empty factor list, also when the report text
\* is non-empty and nothing in it matches.  (Stated for the calls that return.)
C1_NonEmptyResult == (Done /\ ReturnedList) => result.list # <<>>

\* C2: every factor of every returned list has 0 <= value <= 10 and
\* 0 < weight <= 1.
C2_ValueAndWeightInRange ==
  (Done /\ ReturnedList) =>
    \A i \in 1..Len(result.list) :
      LET f == result.list[i]
      IN  /\ f.value.den > 0 /\ f.weight.den > 0
          /\ 0 <= f.value.num /\ f.value.num <= 10 * f.value.den
          /\ 0 < f.weight.num /\ f.weight.num <= f.weight.den

\* a scanned list whose revenue factor (1500 / 100 = 15) was clamped to 10
C2_Witness ==
  /\ Done /\ ReturnedList /\ HasText
  /\ tavily_data.report.chars = <<33829, 25910>> \o <<49, 53, 48, 48>>
  /\ \E i \in 1..Len(result.list) :
       result.list[i].name = <<33829, 25910, 35268, 27169>> /\ result.list[i].value = [num |-> 10, den |-> 1]

\* C3: a payload without 'report', or with an empty report text, gets exactly
\* the four default factors, in order, and no scanner is ever invoked.
C3_DefaultsWithoutScanning ==
  (tavily_data.kind = "dict"
     /\ (~tavily_data.has_report \/ tavily_data.report = StrVal(<<>>)))
  => /\ invoked = <<>>
     /\ Done => result = Returned(DocumentedDefaults)

C3_Witness ==
  /\ Done /\ ReturnedList
  /\ tavily_data.kind = "dict" /\ tavily_data.has_report
  /\ tavily_data.report = StrVal(<<>>)

\* C4: the caller never observes a raised failure, whatever the payload, and
\* the result is all five scanners' outputs or exactly the defaults.
C4_NeverRaisesAllOrNothing ==
  Done => /\ ReturnedList
          /\ \/ result.list = _get_default_factors
             \/ HasText /\ result.list = AllScanned

\* the factor names in scanner order, then declaration order
ScannerNames ==
  << <<33829, 25910, 35268, 27169>>,  \* 1 '营收规模'
     <<21033, 28070, 29575>>,  \* 2 '利润率'
     <<36130, 21153, 22686, 38271, 29575>>,  \* 3 '财务增长率'
     <<29616, 37329, 27969, 20581, 24247, 24230>>,  \* 4 '现金流健康度'
     <<36130, 21153, 20581, 24247, 24230>>,  \* 5 '财务健康度'
     <<24066, 22330, 20221, 39069>>,  \* 6 '市场份额'
     <<24066, 22330, 22320, 20301>>,  \* 7 '市场地位'
     <<21697, 29260, 24433, 21709, 21147>>,  \* 8 '品牌影响力'
     <<23458, 25143, 28385, 24847, 24230>>,  \* 9 '客户满意度'
     <<24066, 22330, 35206, 30422, 24230>>,  \* 10 '市场覆盖度'
     <<31454, 20105, 20248, 21183>>,  \* 11 '竞争优势'
     <<25216, 26415, 20248, 21183>>,  \* 12 '技术优势'
     <<25104, 26412, 20248, 21183>>,  \* 13 '成本优势'
     <<28192, 36947, 20248, 21183>>,  \* 14 '渠道优势'
     <<20154, 25165, 20248, 21183>>,  \* 15 '人才优势'
     <<29992, 25143, 22686, 38271, 29575>>,  \* 16 '用户增长率'
     <<21019, 26032, 33021, 21147>>,  \* 17 '创新能力'
     <<22269, 38469, 21270, 31243, 24230>>,  \* 18 '国际化程度'
     <<25193, 24352, 33021, 21147>>,  \* 19 '扩张能力'
     <<24066, 22330, 25299, 23637>>,  \* 20 '市场拓展'
     <<25216, 26415, 23454, 21147>>,  \* 21 '技术实力'
     <<65, 73, 25216, 26415>>,  \* 22 'AI技术'
     <<25968, 25454, 33021, 21147>>,  \* 23 '数据能力'
     <<20113, 35745, 31639>>,  \* 24 '云计算'
     <<31227, 21160, 25216, 26415>> >>  \* 25 '移动技术'

ScanOrder == <<"financial", "market", "competitive", "growth", "tech">>

NameIndex(n) == CHOOSE k \in 1..Len(ScannerNames) : ScannerNames[k] = n

\* C8: on a non-empty report text the returned list is the financial, market,
\* competitive, growth and technology outputs concatenated in that order, each
\* in declaration order, so names appear in the order of ScannerNames and none
\* twice; the scanners are called in that order.
C8_ConcatenationInScannerOrder ==
  /\ \E n \in 0..Len(ScanOrder) : invoked = SubSeq(ScanOrder, 1, n)
  /\ (Done /\ HasText) =>
       /\ result = Returned(AllScanned)
       /\ invoked = ScanOrder
       /\ \A i \in 1..Len(result.list) :
            \E k \in 1..Len(ScannerNames) : ScannerNames[k] = result.list[i].name
       /\ \A i, j \in 1..Len(result.list) :
            i < j => NameIndex(result.list[i].name) < NameIndex(result.list[j].name)

\* a returned list holding a financial factor and a technology factor
C8_Witness ==
  /\ Done /\ HasText /\ ReturnedList
  /\ \E i, j \in 1..Len(result.list) :
       /\ \E k \in 1..5 : ScannerNames[k] = result.list[i].name
       /\ \E k \in 21..25 : ScannerNames[k] = result.list[j].name

-----------------------------------------------------------------------------
(* Properties of extract_features_from_factors, under SpecFeatures *)

FeaturesReturned == ret.fn = "features"

\* numerator of value * weight of one input factor, absent keys counting as 0
WeightedNum(f) ==
  (IF "value" \in DOMAIN f THEN f.value.num ELSE 0)
    * (IF "weight" \in DOMAIN f THEN f.weight.num ELSE 0)

\* the positions of the input list that reach the array of K elements
FirstK == 1..Min2(4, Len(call.factors))

AllZeroFirstK == \A i \in FirstK : WeightedNum(call.factors[i]) = 0

\* C5: when the first K weighted values are not all zero, the vector has
\* minimum 0 and maximum 2*pi, every element in [0, 2*pi], and nothing is
\* divided by zero -- also when those K values are all equal.
C5_NormalisedToFullRange ==
  (FeaturesReturned /\ ~AllZeroFirstK) =>
    /\ ~ret.zero_division
    /\ \A i \in 1..Len(ret.features) :
         /\ ret.features[i].kind = "times_2pi"
         /\ 0 <= ret.features[i].v.num
         /\ ret.features[i].v.num <= ret.features[i].v.den
    /\ \E i \in 1..Len(ret.features) : ret.features[i] = Angle(RInt(0))
    /\ \E i \in 1..Len(ret.features) : ret.features[i] = Angle(RInt(1))

\* the first K factors of the input, a factor of value 0 standing in where
\* the input is shorter
FirstKPadded(fs) ==
  [i \in 1..4 |-> IF i <= Len(fs) THEN fs[i]
                  ELSE [name |-> <<>>, value |-> RInt(0), weight |-> RInt(0)]]

\* C6: the vector has exactly K = 4 elements whatever the length of the list;
\* it is the vector of the first K factors, zero-padded at the end, so
\* factors at index >= K do not influence it.
C6_ExactlyKFromFirstK ==
  FeaturesReturned =>
    /\ Len(ret.features) = 4
    /\ ret.features = extract_features_from_factors(FirstKPadded(call.factors))
    /\ \A i \in 1..4 :
         (i > Len(call.factors) /\ ~AllZeroFirstK /\ ~ret.zero_division)
           => ret.features[i].v = RDivPos(RSub(RInt(0), ArrayMin(FeatureArray(call.factors))),
                                          RSub(ArrayMax(FeatureArray(call.factors)),
                                               ArrayMin(FeatureArray(call.factors))))

\* a list longer than K whose factor past K has a non-zero weighted value
C6_Witness ==
  /\ FeaturesReturned
  /\ Len(call.factors) > 4
  /\ WeightedNum(call.factors[5]) # 0
  /\ ~ret.zero_division /\ ~AllZeroFirstK

\* C7: when the first K weighted values are all zero (the empty list
\* included) the result is K zeros, not normalised, and nothing is divided
\* by zero.
C7_AllZeroUnchanged ==
  (FeaturesReturned /\ AllZeroFirstK) =>
    /\ ret.features = [i \in 1..4 |-> Plain(RInt(0))]
    /\ ~ret.zero_division

C7_Witness ==
  /\ FeaturesReturned
  /\ call.factors = <<>>
  /\ ret.features = <<Plain(RInt(0)), Plain(RInt(0)), Plain(RInt(0)), Plain(RInt(0))>>

-----------------------------------------------------------------------------
(* Properties of _calculate_text_importance, under SpecImportance *)

ImportanceReturned == ret.fn = "importance"

\* two characters equal up to ASCII case
SameLetter(c, d) ==
  \/ c = d
  \/ c \in 65..90 /\ d = c + 32
  \/ d \in 65..90 /\ c = d + 32

\* the positions of text where keyword k occurs, case-insensitively
Occurrences(text, k) ==
  {p \in 1..(Len(text) - Len(k) + 1) :
     \A j \in 1..Len(k) : SameLetter(text[p + j - 1], k[j])}

\* the occurrence count of k: the most occurrences that do not overlap
OccurrenceCount(text, k) ==
  LET occ == Occurrences(text, k)
      disjoint == {S \in SUBSET occ : \A p, q \in S : p < q => p + Len(k) <= q}
  IN  CHOOSE n \in 0..Cardinality(occ) :
        /\ \E S \in disjoint : Cardinality(S) = n
        /\ \A S \in disjoint : Cardinality(S) <= n

RECURSIVE SumOfCapped(_, _, _)
SumOfCapped(text, ks, i) ==
  IF i > Len(ks) THEN 0
  ELSE Min2(2 * OccurrenceCount(text, ks[i]), 10) + SumOfCapped(text, ks, i + 1)

\* C9: for a non-empty keyword set the score is
\* min((sum over keywords of min(2 * count_k, 10)) / number of keywords, 10),
\* and the scanner block appends a factor, carrying that score, exactly when
\* the score is > 0.
C9_ImportanceFormula ==
  (ImportanceReturned /\ call.indicators # <<>>) =>
    LET total == SumOfCapped(call.text, call.indicators, 1)
        n == Len(call.indicators)
    IN  /\ ret.score.num * n = (IF total <= 10 * n THEN total ELSE 10 * n) * ret.score.den
        /\ (ret.appended # <<>>) <=> (ret.score.num > 0)
        /\ ret.appended # <<>> =>
             /\ Len(ret.appended) = 1
             /\ ret.appended[1].value = ret.score

\* one keyword of a 2-keyword set occurring 3 times, the other never: 3.0
C9_Witness ==
  /\ ImportanceReturned
  /\ call.indicators = << <<97>>, <<99>> >>
  /\ call.text = <<97, 65, 97>>
  /\ ret.score = [num |-> 3, den |-> 1]
  /\ ret.appended # <<>>

-----------------------------------------------------------------------------
(* Properties of _extract_numeric_value, under SpecNumeric *)

NumericReturned == ret.fn = "numeric"

\* the positions of text where the pattern matches
MatchStarts(text, pat) == {i \in 1..Len(text) : MatchAt(text, i, pat).ok}

\* the capture group of the leftmost match
FirstCapture(text, pat) ==
  MatchAt(text, CHOOSE i \in MatchStarts(text, pat) :
                  \A j \in MatchStarts(text, pat) : i <= j, pat).cap

\* the patterns of the list that have a match
Matching(text, patterns) ==
  {k \in 1..Len(patterns) : MatchStarts(text, patterns[k]) # {}}

FirstMatching(text, patterns) ==
  CHOOSE k \in Matching(text, patterns) : \A j \in Matching(text, patterns) : k <= j

\* C10: the value is the first match of the first pattern, in list order,
\* that has a match, and 0 when none has; later patterns are not consulted
\* even when that match parses to 0.  The factor is appended exactly when the
\* value is > 0, with value min(v / divisor, 10) and the metric's weight
\* (revenue 200, divisor 100: 2.0).
C10_FirstPatternFirstMatch ==
  NumericReturned =>
    LET pats == call.metric.patterns
        v == ret.value
    IN  /\ Matching(call.text, pats) = {} => v = RInt(0)
        /\ Matching(call.text, pats) # {} =>
             v = Float(FirstCapture(call.text, pats[FirstMatching(call.text, pats)]))
        /\ (ret.appended # <<>>) <=> (v.num > 0)
        /\ ret.appended # <<>> =>
             /\ Len(ret.appended) = 1
             /\ ret.appended[1].name = call.metric.name
             /\ ret.appended[1].weight = call.metric.weight
             /\ LET q == ret.appended[1].value
                    d == call.metric.divisor
                IN  IF v.num <= 10 * d * v.den
                    THEN q.num * d * v.den = v.num * q.den
                    ELSE q = [num |-> 10, den |-> 1]
        /\ (call.metric = revenue_metric /\ v = RInt(200))
             => ret.appended = << [name |-> call.metric.name,
                                   value |-> [num |-> 2, den |-> 1],
                                   weight |-> [num |-> 1, den |-> 4]] >>

\* '200营收0': the first pattern matches and parses to 0, the fourth pattern
\* would have given 200; the value is 0 and nothing is appended
C10_Witness ==
  /\ NumericReturned
  /\ call.metric = revenue_metric
  /\ call.text = <<50, 48, 48, 33829, 25910, 48>>
  /\ Matching(call.text, call.metric.patterns) = {1, 4}
  /\ ret.value = RInt(0)
  /\ ret.appended = <<>>

====
